---- MODULE Spec2Model ----
(***************************************************************************)
(* Model of DataDrivenTestManager (src/utils/data-driven-test-manager.ts): *)
(* loadTestData, executeDataDrivenTests, executeSingleTest, chunkArray and *)
(* generateReport.  One run of executeDataDrivenTests on one manager is    *)
(* followed from its invocation to its return or throw; every await of the *)
(* method is a step boundary, and the caller-supplied testFunction         *)
(* invocations finish in any order with any outcome.                       *)
(*                                                                         *)
(* testFunction is asynchronous (it returns a promise, line 165); its      *)
(* failure is the throw of an Error carrying a message (the cast `error as *)
(* Error` of executeSingleTest).                                           *)
(***************************************************************************)
EXTENDS Integers, Sequences, FiniteSets, TLC

\* ---------------------------------------------------------------- bounds
MaxRecords == 3
MaxSources == 2
MaxK == 2

\* ------------------------------------------------------------- utilities
Undefined == "undefined"

Range(s) == {s[n] : n \in 1..Len(s)}

Min(a, b) == IF a < b THEN a ELSE b

RECURSIVE Flatten(_)
Flatten(ss) == IF ss = <<>> THEN <<>> ELSE Head(ss) \o Flatten(Tail(ss))

\* Array.prototype.slice(from, to) on a sequence, 0-based, to exclusive
Slice(array, from, to) ==
    LET hi == Min(to, Len(array))
    IN  IF from >= hi THEN <<>> ELSE [n \in 1..(hi - from) |-> array[from + n]]

\* Array.prototype.indexOf: first 0-based position holding a strictly equal
\* value, -1 when there is none.  Two primitives are strictly equal when
\* their values are; two objects only when they are the same object (ref).
StrictEquals(a, b) == a = b

IndexOf(array, x) ==
    IF \E n \in 1..Len(array) : StrictEquals(array[n], x)
    THEN (CHOOSE n \in 1..Len(array) :
              /\ StrictEquals(array[n], x)
              /\ \A m \in 1..(n - 1) : ~StrictEquals(array[m], x)) - 1
    ELSE -1

\* ------------------------------------------------ records and the disk
\* A record produced by JSON.parse: an object (a fresh reference per
\* element, field t) or a primitive string (no identity of its own).
ObjectRecord(ref, t) == [kind |-> "object", ref |-> ref, val |-> "", t |-> t]
StringRecord(val) == [kind |-> "string", ref |-> 0, val |-> val, t |-> <<>>]

\* field values, character by character
Smoke == <<"s", "m", "o", "k", "e">>
Regression == <<"r", "e", "g", "r", "e", "s", "s", "i", "o", "n">>
TestAlpha == <<"t", "e", "s", "t", "A", "l", "p", "h", "a">>
Testing == <<"t", "e", "s", "t", "i", "n", "g">>
MyTest == <<"m", "y", "t", "e", "s", "t">>

Path(dir, name, ext) == [dir |-> dir, name |-> name, ext |-> ext]

ObjsPath == Path("/data", "objs", ".json")
PrimsPath == Path("/data", "prims", ".JSON")
SinglePath == Path("/data", "single", ".json")
EmptyPath == Path("/data", "empty", ".json")
MissingPath == Path("/data", "missing", ".json")
TagsPath == Path("/data", "tags", ".json")
NamesPath == Path("/data", "names", ".json")
MalformedPath == Path("/data", "malformed", ".json")
NotesPath == Path("/data", "notes", ".TXT")
ReportPath == Path("/cwd/reports", "data-driven-execution-report", ".json")

DataPaths == {ObjsPath, PrimsPath, SinglePath, EmptyPath, MissingPath}

Absent == [kind |-> "absent"]
Malformed == [kind |-> "malformed"]
ArrayFile(items) == [kind |-> "array", items |-> items]
ValueFile(item) == [kind |-> "value", items |-> <<item>>]

\* objs.json: two distinct objects; prims.JSON: strings "x","y","x",...
\* (equal values recur); single.json: one top-level object; empty.json: [];
\* missing.json does not exist.
ObjsContent == <<ObjectRecord(1, Smoke), ObjectRecord(2, Regression)>>
PrimsContent ==
    [n \in 1..MaxRecords |-> StringRecord(IF n % 2 = 1 THEN "x" ELSE "y")]

InitialDisk ==
    [p \in DataPaths \cup {ReportPath} |->
        CASE p = ObjsPath -> ArrayFile(ObjsContent)
          [] p = PrimsPath -> ArrayFile(PrimsContent)
          [] p = SinglePath -> ValueFile(ObjectRecord(1, Smoke))
          [] p = EmptyPath -> ArrayFile(<<>>)
          [] OTHER -> Absent]

\* further files: tags.json: [{t:"smoke"},{t:"regression"},{t:"smoke"}];
\* names.json: [{t:"testAlpha"},{t:"testing"},{t:"mytest"}]; malformed.json
\* is not JSON; notes.TXT holds an array but is no data file.
TagsContent ==
    <<ObjectRecord(1, Smoke), ObjectRecord(2, Regression), ObjectRecord(3, Smoke)>>
NamesContent ==
    <<ObjectRecord(1, TestAlpha), ObjectRecord(2, Testing), ObjectRecord(3, MyTest)>>

\* the files the calls on a manager find
CallsDisk ==
    (MalformedPath :> Malformed) @@ (NotesPath :> ArrayFile(ObjsContent)) @@ InitialDisk

\* the files the filtered loads find
FilterDisk ==
    (TagsPath :> ArrayFile(TagsContent)) @@ (NamesPath :> ArrayFile(NamesContent))

\* path.extname(p).toLowerCase()
ToLowerCase(ext) ==
    CASE ext = ".JSON" -> ".json"
      [] ext = ".CSV" -> ".csv"
      [] ext = ".XLSX" -> ".xlsx"
      [] ext = ".XLS" -> ".xls"
      [] ext = ".TXT" -> ".txt"
      [] OTHER -> ext

\* path.basename(p)
Basename(p) == <<p.name, p.ext>>

VARIABLES
    disk,           \* files: path -> content
    testDataCache,  \* this.testDataCache: cache key -> record list
    configCache,    \* this.configCache
    cfg,            \* the testConfig of the run
    pc,             \* position of executeDataDrivenTests
    srcIdx,         \* position of `for (const dataSource of dataSources)`
    data,           \* const data of the current source
    chunks,         \* const chunks of the current source (parallel)
    chunkNo,        \* position of `for (const chunk of chunks)`
    i,              \* let i of the sequential loop
    running,        \* testFunction invocations started and not finished
    awaited,        \* positions whose executeSingleTest promise is awaited
    settled,        \* fulfilled executeSingleTest promises of the awaited batch
    results,        \* const results
    totalTests,     \* let totalTests
    summary,        \* const summary
    thrown,         \* the error executeDataDrivenTests threw
    loaded,         \* history: the list loaded for each source processed
    startLog,       \* history: testFunction invocations in start order
    outcomes,       \* history: outcome of each finished invocation
    firstFail,      \* history: the first invocation that failed
    lastCall,       \* history: the last call made on the manager, its outcome
    returned,       \* history: what loadTestData returned since the last clearCache
    callCount,      \* history: number of calls made on the manager
    secretKey,      \* this.secretKey of each DataEncryption instance
    encrypted,      \* the last encrypt call: who, what, its outcome
    decrypted,      \* the last decrypt call: who, what, its outcome
    inFlight        \* the overlapping loadTestData calls, each with its position

encryptionVars == <<secretKey, encrypted, decrypted>>

overlapVars == <<inFlight>>

vars == <<disk, testDataCache, configCache, cfg, pc, srcIdx, data, chunks,
          chunkNo, i, running, awaited, settled, results, totalTests,
          summary, thrown, loaded, startLog, outcomes, firstFail, lastCall, returned,
          callCount, encryptionVars, overlapVars>>

\* no DataEncryption instance is followed
NoEncryption ==
    /\ secretKey = <<>>
    /\ encrypted = [op |-> "none"]
    /\ decrypted = [op |-> "none"]

\* no overlapping loads are followed
NoOverlap == inFlight = <<>>

NoSummary == [none |-> TRUE]

\* no call made yet
NoCall == [op |-> "none"]

\* An Error and its message: what failed, and for which file or invocation
Error(what, p, srcNo, pos) == [what |-> what, path |-> p, srcNo |-> srcNo, pos |-> pos]
NoError == Error("none", Absent, 0, 0)
TestError(srcNo, pos) == Error("test failed", Absent, srcNo, pos)
ReportError == Error("report write failed", ReportPath, 0, 0)

\* ---------------------------------------------------------- loadTestData
\* a reader that takes a missing or malformed file for an empty array
ReadFileLenient(d, p) ==
    IF d[p].kind \in {"absent", "malformed"}
    THEN [ok |-> TRUE, error |-> NoError, value |-> ArrayFile(<<>>)]
    ELSE [ok |-> TRUE, error |-> NoError, value |-> d[p]]

\* Format readers (readCSVFile, readExcelFile, readJSONFile): the parsed
\* content of the file, or a failure when the file does not exist or does
\* not parse.
ReadFile(d, p) ==
    CASE d[p].kind = "absent" ->
             [ok |-> FALSE, error |-> Error("file not found", p, 0, 0), value |-> Absent]
      [] d[p].kind = "malformed" ->
             [ok |-> FALSE, error |-> Error("Invalid JSON format", p, 0, 0), value |-> Absent]
      [] OTHER -> [ok |-> TRUE, error |-> NoError, value |-> d[p]]

\* An options object: its own keys in insertion order (given) and their
\* values (a key it does not have keeps the value given here and is never
\* read).  filterCriteria is the list of Object.entries of the criteria.
Options(given, useCache, filterCriteria, sampleSize, randomSample) ==
    [given |-> given, useCache |-> useCache, filterCriteria |-> filterCriteria,
     sampleSize |-> sampleSize, randomSample |-> randomSample]

NoOptions == Options(<<>>, TRUE, <<>>, 0, FALSE)

Has(options, key) == \E n \in 1..Len(options.given) : options.given[n] = key

\* const { useCache = true, filterCriteria, sampleSize, randomSample = false }
UseCache(options) == IF Has(options, "useCache") THEN options.useCache ELSE TRUE
HasFilterCriteria(options) == Has(options, "filterCriteria")
SampleSize(options) == IF Has(options, "sampleSize") THEN options.sampleSize ELSE 0
RandomSample(options) ==
    IF Has(options, "randomSample") THEN options.randomSample ELSE FALSE

\* JSON.stringify of a boolean, a small number, a criteria object
BoolText(b) == IF b THEN "true" ELSE "false"

Digits == <<"0", "1", "2", "3", "4", "5", "6", "7", "8", "9">>

NumberText(n) == Digits[n + 1]

CriteriaText(criteria) ==
    <<"{">> \o Flatten([n \in 1..Len(criteria) |->
                           (IF n > 1 THEN <<",">> ELSE <<>>)
                               \o <<"\"", criteria[n].key, "\"", ":", "\"">>
                               \o criteria[n].value \o <<"\"">>])
           \o <<"}">>

ValueText(options, key) ==
    CASE key = "useCache" -> <<BoolText(options.useCache)>>
      [] key = "filterCriteria" -> CriteriaText(options.filterCriteria)
      [] key = "sampleSize" -> <<NumberText(options.sampleSize)>>
      [] key = "randomSample" -> <<BoolText(options.randomSample)>>

\* JSON.stringify(options): the keys in insertion order, each with its value
JSONStringify(options) ==
    <<"{">> \o Flatten([n \in 1..Len(options.given) |->
                           (IF n > 1 THEN <<",">> ELSE <<>>)
                               \o <<"\"", options.given[n], "\"", ":">>
                               \o ValueText(options, options.given[n])])
           \o <<"}">>

\* cacheKey = `${absolutePath}_${JSON.stringify(options)}` (paths are
\* absolute already: path.resolve leaves them as they are)
CacheKey(p, options) == <<p, "_", JSONStringify(options)>>

\* a cache that is never consulted
CacheHitNever(useCache, cache, cacheKey) == FALSE

\* line 57: useCache && this.testDataCache.has(cacheKey)
CacheHit(useCache, cache, cacheKey) == useCache /\ cacheKey \in DOMAIN cache

\* a set that stores nothing
CacheSetNothing(cache, cacheKey, value) == cache

\* Map.prototype.set
CacheSet(cache, cacheKey, value) == (cacheKey :> value) @@ cache

\* a failure that leaves an empty list under the key
CacheAfterFailureStoresEmpty(cache, cacheKey) == (cacheKey :> <<>>) @@ cache

\* lines 118-121: the catch block logs and rethrows, the cache is as it was
CacheAfterFailure(cache, cacheKey) == cache

\* a load that stores its result whatever useCache says
StoresResultAlways(useCache) == TRUE

\* line 112: if (useCache) the result is stored
StoresResult(useCache) == useCache

\* a switch with a reader and a writer for every extension
SupportedFormatAny(fileExtension) == TRUE

\* the cases of the switch on fileExtension (lines 68-92 and 336-377)
SupportedFormat(fileExtension) == fileExtension \in {".csv", ".xlsx", ".xls", ".json"}

\* ------------------------------------------------------------ filterData
UpperCase == <<"A", "B", "C", "D", "E", "F", "G", "H", "I", "J", "K", "L", "M",
               "N", "O", "P", "Q", "R", "S", "T", "U", "V", "W", "X", "Y", "Z">>
LowerCase == <<"a", "b", "c", "d", "e", "f", "g", "h", "i", "j", "k", "l", "m",
               "n", "o", "p", "q", "r", "s", "t", "u", "v", "w", "x", "y", "z">>

LowerChar(c) ==
    IF \E n \in 1..Len(UpperCase) : UpperCase[n] = c
    THEN LowerCase[CHOOSE n \in 1..Len(UpperCase) : UpperCase[n] = c]
    ELSE c

\* record[key]: the field of an object; a string has no such property
Field(record, key) ==
    IF record.kind = "object" /\ key = "t"
    THEN [defined |-> TRUE, str |-> record.t]
    ELSE [defined |-> FALSE, str |-> <<>>]

\* String(v), as RegExp.prototype.test converts its argument
StringOf(v) ==
    IF v.defined THEN v.str ELSE <<"u", "n", "d", "e", "f", "i", "n", "e", "d">>

\* value.includes("*")
IncludesStar(value) == \E n \in 1..Len(value) : value[n] = "*"

\* value.replace(/\*/g, ".*")
RECURSIVE ReplaceStars(_)
ReplaceStars(value) ==
    IF value = <<>> THEN <<>>
    ELSE IF Head(value) = "*" THEN <<".", "*">> \o ReplaceStars(Tail(value))
    ELSE <<Head(value)>> \o ReplaceStars(Tail(value))

\* a pattern character against a subject character under the "i" flag
CharMatches(rc, c) == rc = "." \/ LowerChar(rc) = LowerChar(c)

\* the pattern (literals, ".", "x*") matches at the start of str
RECURSIVE MatchHere(_, _)
MatchHere(re, str) ==
    IF re = <<>> THEN TRUE
    ELSE IF Len(re) >= 2 /\ re[2] = "*"
    THEN \E k \in 0..Len(str) :
             /\ \A j \in 1..k : CharMatches(re[1], str[j])
             /\ MatchHere(SubSeq(re, 3, Len(re)), SubSeq(str, k + 1, Len(str)))
    ELSE /\ str # <<>>
         /\ CharMatches(re[1], str[1])
         /\ MatchHere(Tail(re), Tail(str))

\* new RegExp(source, "i").test(str): the pattern matches somewhere in str
RegExpTest(re, str) ==
    \E k \in 0..Len(str) : MatchHere(re, SubSeq(str, k + 1, Len(str)))

\* lines 511-517: one criterion against one record
CriterionMatches(record, entry) ==
    IF IncludesStar(entry.value)
    THEN RegExpTest(ReplaceStars(entry.value), StringOf(Field(record, entry.key)))
    ELSE Field(record, entry.key) = [defined |-> TRUE, str |-> entry.value]

\* a filter that keeps the records some criterion matches
filterDataSome(array, criteria) ==
    SelectSeq(array, LAMBDA record :
                         \E n \in 1..Len(criteria) : CriterionMatches(record, criteria[n]))

filterData(array, criteria) ==
    SelectSeq(array, LAMBDA record :
                         \A n \in 1..Len(criteria) : CriterionMatches(record, criteria[n]))

\* [...data].sort(() => 0.5 - Math.random()): the records in some order.
\* `order` is a permutation of 1..N, N >= array.length; the positions of
\* the array come in the order they have in it.
Shuffle(array, order) ==
    LET positions == SelectSeq(order, LAMBDA q : q <= Len(array))
    IN  [n \in 1..Len(array) |-> array[positions[n]]]

\* getRandomSample: the first sampleSize records of the shuffled copy
getRandomSample(array, sampleSize, order) ==
    Slice(Shuffle(array, order), 0, sampleSize)

\* lines 97-109: filtering, then sampling (`order`: the order
\* getRandomSample's shuffle produces)
Reduce(parsed, options, order) ==
    LET filtered == IF HasFilterCriteria(options)
                    THEN filterData(parsed, options.filterCriteria)
                    ELSE parsed
    IN  IF SampleSize(options) # 0 /\ SampleSize(options) < Len(filtered)
        THEN IF RandomSample(options)
             THEN getRandomSample(filtered, SampleSize(options), order)
             ELSE Slice(filtered, 0, SampleSize(options))
        ELSE filtered

\* the outcome of a loadTestData call: the list returned or the error
\* thrown, the cache afterwards, whether the list came from the cache and
\* whether a format reader was invoked
Loaded(ok, list, error, cache, hit, reader) ==
    [ok |-> ok, data |-> list, error |-> error, cache |-> cache,
     hit |-> hit, reader |-> reader]

\* loadTestData(filePath, options)
loadTestData(d, cache, p, options, order) ==
    LET cacheKey == CacheKey(p, options)
        fileExtension == ToLowerCase(p.ext)
        read == ReadFile(d, p)
    IN  IF CacheHit(UseCache(options), cache, cacheKey)
        THEN Loaded(TRUE, cache[cacheKey], NoError, cache, TRUE, FALSE)
        ELSE IF ~SupportedFormat(fileExtension)
        THEN Loaded(FALSE, <<>>, Error("Unsupported file format", p, 0, 0),
                    CacheAfterFailure(cache, cacheKey), FALSE, FALSE)
        ELSE IF ~read.ok
        THEN Loaded(FALSE, <<>>, read.error, CacheAfterFailure(cache, cacheKey),
                    FALSE, TRUE)
        ELSE LET reduced == Reduce(read.value.items, options, order)
             IN  Loaded(TRUE, reduced, NoError,
                        IF StoresResult(UseCache(options))
                        THEN CacheSet(cache, cacheKey, reduced)
                        ELSE cache,
                        FALSE, TRUE)

\* ------------------------------------------------------------ chunkArray
RECURSIVE chunkFrom(_, _, _)
chunkFrom(array, chunkSize, from) ==
    IF from < Len(array)
    THEN <<Slice(array, from, from + chunkSize)>> \o chunkFrom(array, chunkSize, from + chunkSize)
    ELSE <<>>

\* chunks one record longer than chunkSize
chunkArrayOversized(array, chunkSize) == chunkFrom(array, chunkSize + 1, 0)

chunkArray(array, chunkSize) == chunkFrom(array, chunkSize, 0)

\* whether the loop of lines 528-530 ends: i reaches array.length when there
\* is nothing to chunk or i += chunkSize moves it forward
ChunkArrayEnds(array, chunkSize) == Len(array) = 0 \/ chunkSize > 0

\* the number of chunks recorded of a loop that does not end
MaxChunks == 2


\* ----------------------------------------------------- executeSingleTest
\* One started testFunction invocation: the arguments it was called with
\* (data, index, source) and the record it is for (source number, position).
Invocation(srcNo, pos, record, index, source) ==
    [srcNo |-> srcNo, pos |-> pos, data |-> record, index |-> index, source |-> source]

Result(inv, status, error) ==
    [source |-> inv.source, index |-> inv.index, status |-> status,
     error |-> error, data |-> inv.data, srcNo |-> inv.srcNo, pos |-> inv.pos]

\* a catch block that rethrows whatever continueOnFailure says
RethrowsAlways(continueOnFailure) == TRUE

\* whether the catch block of executeSingleTest rethrows
Rethrows(continueOnFailure) == ~continueOnFailure

\* the promise of executeSingleTest once testFunction settled with `error`
\* (NoError when it returned): fulfilled with a result, or rejected
executeSingleTest(inv, error, continueOnFailure) ==
    IF error = NoError
    THEN [rejected |-> FALSE, value |-> Result(inv, "passed", NoError), error |-> NoError]
    ELSE IF Rethrows(continueOnFailure)
    THEN [rejected |-> TRUE, value |-> Result(inv, "failed", error), error |-> error]
    ELSE [rejected |-> FALSE, value |-> Result(inv, "failed", error), error |-> NoError]

\* ------------------------------------------------ executeDataDrivenTests
\* a data source: path, label ("" when absent), filterCriteria (given or
\* not), sampleSize (0 when absent) and randomSample
Descriptor(p, label, hasFilter, criteria, sampleSize, randomSample) ==
    [path |-> p, label |-> label, hasFilter |-> hasFilter, filterCriteria |-> criteria,
     sampleSize |-> sampleSize, randomSample |-> randomSample]

Descriptors ==
    {Descriptor(p, "", FALSE, <<>>, 0, FALSE) : p \in {PrimsPath, EmptyPath, MissingPath}}
        \cup {Descriptor(ObjsPath, "", FALSE, <<>>, 1, FALSE),
              Descriptor(ObjsPath, "smoke only", TRUE, <<[key |-> "t", value |-> Smoke]>>,
                         0, FALSE)}

\* lines 214-219: the options executeDataDrivenTests loads a source with
\* (sheetName and filterCriteria, when the descriptor has them)
LoadOptions(dataSource) ==
    IF dataSource.hasFilter
    THEN Options(<<"filterCriteria">>, TRUE, dataSource.filterCriteria, 0, FALSE)
    ELSE NoOptions

\* the order of positions an unshuffled list has
IdentityOrder == [n \in 1..MaxRecords |-> n]

\* maxConcurrency = 4 when testConfig has none (line 195)
DefaultMaxConcurrency == 4

\* the lists of up to MaxSources data sources, each descriptor listed once
\* (a source loaded a second time is answered from the cache: CallsSpec)
SourceLists ==
    {list \in UNION {[1..n -> Descriptors] : n \in 0..MaxSources} :
        \A m, n \in 1..Len(list) : m # n => list[m] # list[n]}

\* the test configurations: maxConcurrency is given in parallel mode, the
\* only mode that reads it
Configs ==
    {c \in [dataSources : SourceLists,
            parallel : BOOLEAN,
            maxConcurrency : (1..MaxK) \cup {DefaultMaxConcurrency},
            continueOnFailure : BOOLEAN,
            generateReport : BOOLEAN] :
        c.parallel <=> c.maxConcurrency # DefaultMaxConcurrency}

\* executeDataDrivenTests was called with a testConfig of `configs` on a
\* manager just constructed
Called(configs) ==
    /\ disk = InitialDisk
    /\ testDataCache = <<>>
    /\ configCache = <<>>
    /\ cfg \in configs
    /\ pc = "loop"
    /\ srcIdx = 1
    /\ data = <<>>
    /\ chunks = <<>>
    /\ chunkNo = 1
    /\ i = 0
    /\ running = {}
    /\ awaited = {}
    /\ settled = <<>>
    /\ results = <<>>
    /\ totalTests = 0
    /\ summary = NoSummary
    /\ thrown = NoError
    /\ loaded = <<>>
    /\ startLog = <<>>
    /\ outcomes = <<>>
    /\ firstFail = NoError
    /\ lastCall = NoCall
    /\ returned = <<>>
    /\ callCount = 0
    /\ NoEncryption
    /\ NoOverlap

Init == Called(Configs)

\* dataSource.label || path.basename(dataSource.path)
SourceLabel(dataSource) ==
    IF dataSource.label # "" THEN <<dataSource.label, "">> ELSE Basename(dataSource.path)

\* a catch around the data source that swallows every error
AbortsRunNever(continueOnFailure) == FALSE

\* lines 262-264: whether the catch around one data source rethrows
AbortsRun(continueOnFailure) == ~continueOnFailure

\* lines 210-226 and 256-265: load the next source; a failed load is caught
\* and either rethrown or skipped
LoadSource ==
    /\ pc = "loop"
    /\ srcIdx <= Len(cfg.dataSources)
    /\ LET dataSource == cfg.dataSources[srcIdx]
           load == loadTestData(disk, testDataCache, dataSource.path,
                                LoadOptions(dataSource), IdentityOrder)
       IN  IF load.ok
           THEN /\ testDataCache' = load.cache
                /\ data' = load.data
                /\ totalTests' = totalTests + Len(load.data)
                /\ chunks' = IF cfg.parallel
                                /\ ChunkArrayEnds(load.data, cfg.maxConcurrency)
                             THEN chunkArray(load.data, cfg.maxConcurrency)
                             ELSE <<>>
                /\ chunkNo' = 1
                /\ i' = 0
                /\ pc' = IF cfg.parallel
                             /\ ~ChunkArrayEnds(load.data, cfg.maxConcurrency)
                          THEN "chunking"
                          ELSE "exec"
                /\ loaded' = Append(loaded, load.data)
                /\ UNCHANGED <<srcIdx, thrown>>
           ELSE /\ IF AbortsRun(cfg.continueOnFailure)
                   THEN pc' = "thrown" /\ thrown' = load.error /\ srcIdx' = srcIdx
                   ELSE pc' = "loop" /\ thrown' = thrown /\ srcIdx' = srcIdx + 1
                /\ loaded' = Append(loaded, <<>>)
                /\ UNCHANGED <<testDataCache, data, totalTests, chunks, chunkNo, i>>
    /\ UNCHANGED <<disk, configCache, cfg, running, awaited, settled, results,
                   summary, startLog, outcomes, firstFail, lastCall, returned, callCount,
                   encryptionVars, overlapVars>>


\* the entry of the start history for an invocation
Started(inv) == [srcNo |-> inv.srcNo, pos |-> inv.pos, index |-> inv.index]

\* position in `data` of the first record of chunk number c
ChunkOffset(c) == Len(Flatten(SubSeq(chunks, 1, c - 1)))

\* const globalIndex = chunks.flat().indexOf(record)
GlobalIndex(record) == IndexOf(Flatten(chunks), record)

\* waiting for the first promise only
AwaitedFirstOnly(started) == {started[1].pos}

\* the promises the method waits for at `await Promise.all(promises)` and
\* at `await this.executeSingleTest(...)`: those of all started invocations
AwaitedPromises(started) == {started[n].pos : n \in 1..Len(started)}

\* lines 228-240: chunk.map(...) starts one executeSingleTest, and with it
\* one testFunction invocation, per record of the chunk, in chunk order;
\* the method then awaits Promise.all(promises)
StartChunk ==
    /\ pc = "exec"
    /\ cfg.parallel
    /\ chunkNo <= Len(chunks)
    /\ LET chunk == chunks[chunkNo]
           source == SourceLabel(cfg.dataSources[srcIdx])
           started == [chunkIndex \in 1..Len(chunk) |->
                          Invocation(srcIdx, ChunkOffset(chunkNo) + chunkIndex - 1,
                                     chunk[chunkIndex], GlobalIndex(chunk[chunkIndex]),
                                     source)]
       IN  /\ running' = running \cup Range(started)
           /\ awaited' = AwaitedPromises(started)
           /\ startLog' = startLog \o [n \in 1..Len(started) |-> Started(started[n])]
    /\ settled' = <<>>
    /\ pc' = "await"
    /\ UNCHANGED <<disk, testDataCache, configCache, cfg, srcIdx, data, chunks,
                   chunkNo, i, results, totalTests, summary, thrown, loaded,
                   outcomes, firstFail, lastCall, returned, callCount,
                   encryptionVars, overlapVars>>

\* lines 245-252: the sequential loop starts executeSingleTest for data[i]
\* and awaits it
StartSequential ==
    /\ pc = "exec"
    /\ ~cfg.parallel
    /\ i < Len(data)
    /\ LET inv == Invocation(srcIdx, i, data[i + 1], i,
                             SourceLabel(cfg.dataSources[srcIdx]))
       IN  /\ running' = running \cup {inv}
           /\ startLog' = Append(startLog, Started(inv))
    /\ awaited' = AwaitedPromises(<<Invocation(srcIdx, i, data[i + 1], i,
                                               SourceLabel(cfg.dataSources[srcIdx]))>>)
    /\ settled' = <<>>
    /\ pc' = "await"
    /\ UNCHANGED <<disk, testDataCache, configCache, cfg, srcIdx, data, chunks,
                   chunkNo, i, results, totalTests, summary, thrown, loaded,
                   outcomes, firstFail, lastCall, returned, callCount,
                   encryptionVars, overlapVars>>

\* whether the method is suspended on the promise of invocation inv
IsAwaited(inv) == pc = "await" /\ inv.srcNo = srcIdx /\ inv.pos \in awaited

\* testFunction of a running invocation settles with `error` (NoError: it
\* returned).  executeSingleTest (lines 543-569) turns that into a result or
\* a rejection; a rejection rejects the awaited promise (Promise.all rejects
\* on the first rejection), the catch of lines 256-264 rethrows it.
TestFunctionSettles(inv, error) ==
    /\ inv \in running
    /\ running' = running \ {inv}
    /\ outcomes' = (<<inv.srcNo, inv.pos>> :> error) @@ outcomes
    /\ firstFail' = IF error # NoError /\ firstFail = NoError THEN error ELSE firstFail
    /\ LET promise == executeSingleTest(inv, error, cfg.continueOnFailure)
       IN  IF ~IsAwaited(inv)
           THEN UNCHANGED <<pc, thrown, settled, srcIdx>>
           ELSE IF promise.rejected
           THEN /\ IF AbortsRun(cfg.continueOnFailure)
                   THEN pc' = "thrown" /\ thrown' = promise.error /\ srcIdx' = srcIdx
                   ELSE pc' = "loop" /\ thrown' = thrown /\ srcIdx' = srcIdx + 1
                /\ UNCHANGED settled
           ELSE /\ settled' = (inv.pos :> promise.value) @@ settled
                /\ UNCHANGED <<pc, thrown, srcIdx>>
    /\ UNCHANGED <<disk, testDataCache, configCache, cfg, data, chunks,
                   chunkNo, i, awaited, results, totalTests, summary, loaded,
                   startLog, lastCall, returned, callCount,
                   encryptionVars, overlapVars>>

TestFunctionReturns == \E inv \in running : TestFunctionSettles(inv, NoError)

TestFunctionThrows ==
    \E inv \in running : TestFunctionSettles(inv, TestError(inv.srcNo, inv.pos))


\* the results in the reverse order of the promises
RECURSIVE PromiseAllReversed(_, _)
PromiseAllReversed(positions, fulfilled) ==
    IF positions = {} THEN <<>>
    ELSE LET last == CHOOSE p \in positions : \A q \in positions : p >= q
         IN  <<fulfilled[last]>> \o PromiseAllReversed(positions \ {last}, fulfilled)

\* the value of Promise.all(promises): the results in the order of the
\* promises, that is of the records of the chunk, whatever order they
\* settled in
RECURSIVE PromiseAll(_, _)
PromiseAll(positions, fulfilled) ==
    IF positions = {} THEN <<>>
    ELSE LET first == CHOOSE p \in positions : \A q \in positions : p <= q
         IN  <<fulfilled[first]>> \o PromiseAll(positions \ {first}, fulfilled)

\* whether the awaited promise is fulfilled: every promise of the batch is
AllFulfilled(positions, fulfilled) == positions \subseteq DOMAIN fulfilled

\* a loop that steps over every other record
NextIndexSkipping(n) == n + 2

\* i++ of the sequential loop
NextIndex(n) == n + 1

\* pushing the first result of the chunk only
PushFirstOnly(list, items) == IF items = <<>> THEN list ELSE Append(list, Head(items))

\* results.push(...chunkResults), results.push(result)
Push(list, items) == list \o items

\* lines 240-242 and 246-253: the await returns; the results are pushed and
\* the loop goes on
ResumeAfterAwait ==
    /\ pc = "await"
    /\ AllFulfilled(awaited, settled)
    /\ results' = Push(results, PromiseAll(awaited, settled))
    /\ IF cfg.parallel
       THEN chunkNo' = chunkNo + 1 /\ i' = i
       ELSE i' = NextIndex(i) /\ chunkNo' = chunkNo
    /\ awaited' = {}
    /\ settled' = <<>>
    /\ pc' = "exec"
    /\ UNCHANGED <<disk, testDataCache, configCache, cfg, srcIdx, data, chunks,
                   running, totalTests, summary, thrown, loaded, startLog,
                   outcomes, firstFail, lastCall, returned, callCount,
                   encryptionVars, overlapVars>>

\* the loop over the records (or chunks) of the source ends; the loop over
\* the data sources goes on
EndOfSource ==
    /\ pc = "exec"
    /\ IF cfg.parallel THEN chunkNo > Len(chunks) ELSE i >= Len(data)
    /\ srcIdx' = srcIdx + 1
    /\ pc' = "loop"
    /\ UNCHANGED <<disk, testDataCache, configCache, cfg, data, chunks, chunkNo,
                   i, running, awaited, settled, results, totalTests, summary,
                   thrown, loaded, startLog, outcomes, firstFail, lastCall, returned, callCount,
                   encryptionVars, overlapVars>>

\* a switch whose "failed" case falls through to nothing and counts as passed
CountResultFailedAsPassed(counts, result) ==
    CASE result.status = "passed" -> [counts EXCEPT !.passed = @ + 1]
      [] result.status = "failed" -> [counts EXCEPT !.passed = @ + 1]
      [] result.status = "skipped" -> [counts EXCEPT !.skipped = @ + 1]
      [] OTHER -> counts

\* lines 270-280: the switch on result.status adds one to one counter
CountResult(counts, result) ==
    CASE result.status = "passed" -> [counts EXCEPT !.passed = @ + 1]
      [] result.status = "failed" -> [counts EXCEPT !.failed = @ + 1]
      [] result.status = "skipped" -> [counts EXCEPT !.skipped = @ + 1]
      [] OTHER -> counts

\* lines 269-281: results.forEach(...) from passed = failed = skipped = 0
RECURSIVE CalculateFinalStatistics(_, _)
CalculateFinalStatistics(counts, list) ==
    IF list = <<>> THEN counts
    ELSE CalculateFinalStatistics(CountResult(counts, Head(list)), Tail(list))

\* lines 283-289
Summary(total, list) ==
    LET counts == CalculateFinalStatistics([passed |-> 0, failed |-> 0, skipped |-> 0], list)
    IN  [totalTests |-> total,
         passed |-> counts.passed,
         failed |-> counts.failed,
         skipped |-> counts.skipped,
         results |-> list]

\* lines 268-302: after the last source the statistics are calculated and
\* the summary is built; it is returned at once unless a report is wanted
CalculateStatistics ==
    /\ pc = "loop"
    /\ srcIdx > Len(cfg.dataSources)
    /\ summary' = Summary(totalTests, results)
    /\ pc' = IF cfg.generateReport THEN "report" ELSE "returned"
    /\ UNCHANGED <<disk, testDataCache, configCache, cfg, srcIdx, data, chunks,
                   chunkNo, i, running, awaited, settled, results, totalTests,
                   thrown, loaded, startLog, outcomes, firstFail, lastCall, returned, callCount,
                   encryptionVars, overlapVars>>

\* lines 488-489 of getCacheStats: the entry counts of the two maps
CacheStats(testData, config) ==
    [testDataEntries |-> Cardinality(DOMAIN testData),
     configEntries |-> Cardinality(DOMAIN config)]

\* getCacheStats (entry counts)
getCacheStats == CacheStats(testDataCache, configCache)

\* lines 582-593: the report object
ReportOf(s, cacheStats) ==
    [kind |-> "value",
     items |-> <<[summary |-> [totalTests |-> s.totalTests, passed |-> s.passed,
                               failed |-> s.failed, skipped |-> s.skipped],
                  details |-> s.results,
                  cacheStats |-> cacheStats]>>]

Report(s) == ReportOf(s, getCacheStats)

\* generateReport (lines 572-597) writes the report; the summary is returned
GenerateReportWrites ==
    /\ pc = "report"
    /\ disk' = [disk EXCEPT ![ReportPath] = Report(summary)]
    /\ pc' = "returned"
    /\ UNCHANGED <<testDataCache, configCache, cfg, srcIdx, data, chunks,
                   chunkNo, i, running, awaited, settled, results, totalTests,
                   summary, thrown, loaded, startLog, outcomes, firstFail, lastCall, returned, callCount,
                   encryptionVars, overlapVars>>

\* generateReport fails (mkdirSync or writeFileSync throws): the call at
\* line 299 is not guarded, the error leaves executeDataDrivenTests
GenerateReportFails ==
    /\ pc = "report"
    /\ pc' = "thrown"
    /\ thrown' = ReportError
    /\ UNCHANGED <<disk, testDataCache, configCache, cfg, srcIdx, data, chunks,
                   chunkNo, i, running, awaited, settled, results, totalTests,
                   summary, loaded, startLog, outcomes, firstFail, lastCall, returned, callCount,
                   encryptionVars, overlapVars>>

Next ==
    \/ LoadSource
    \/ StartChunk
    \/ StartSequential
    \/ TestFunctionReturns
    \/ TestFunctionThrows
    \/ ResumeAfterAwait
    \/ EndOfSource
    \/ CalculateStatistics
    \/ GenerateReportWrites
    \/ GenerateReportFails

Spec == Init /\ [][Next]_vars

\* ------------------------------------------------- runs that need not end
\* the configurations above and, in parallel mode, maxConcurrency = 0 (the
\* default of line 195 stands in for an undefined maxConcurrency only)
LiveConfigs ==
    Configs \cup {[c EXCEPT !.maxConcurrency = 0] : c \in {c \in Configs : c.parallel}}

LiveInit == Called(LiveConfigs)

\* chunkArray with a chunkSize that does not move i forward (lines 528-530):
\* the test i < array.length holds, i being 0 as before, and the loop body
\* is entered once more
ChunkArrayTests ==
    /\ pc = "chunking"
    /\ 0 < Len(data)
    /\ pc' = "pushing"
    /\ UNCHANGED <<disk, testDataCache, configCache, cfg, srcIdx, data, chunks,
                   chunkNo, i, running, awaited, settled, results, totalTests,
                   summary, thrown, loaded, startLog, outcomes, firstFail, lastCall,
                   returned, callCount, encryptionVars, overlapVars>>

\* the loop body pushes one more (empty) chunk and i += chunkSize leaves i
\* as it was.  Of the chunks pushed only the first MaxChunks are recorded.
ChunkArrayPushes ==
    /\ pc = "pushing"
    /\ chunks' = IF Len(chunks) < MaxChunks
                 THEN Append(chunks, Slice(data, 0, 0 + cfg.maxConcurrency))
                 ELSE chunks
    /\ pc' = "chunking"
    /\ UNCHANGED <<disk, testDataCache, configCache, cfg, srcIdx, data,
                   chunkNo, i, running, awaited, settled, results, totalTests,
                   summary, thrown, loaded, startLog, outcomes, firstFail, lastCall,
                   returned, callCount, encryptionVars, overlapVars>>

LiveNext ==
    \/ Next
    \/ ChunkArrayTests
    \/ ChunkArrayPushes

\* every format reader call and every testFunction invocation terminates,
\* and the method goes on whenever it can
LiveSpec == LiveInit /\ [][LiveNext]_vars /\ WF_vars(LiveNext)

TypeOK ==
    /\ pc \in {"idle", "loop", "chunking", "pushing", "exec", "await", "report", "returned", "thrown"}
    /\ srcIdx \in 1..(Len(cfg.dataSources) + 1)
    /\ Len(results) <= totalTests


\* ---------------------------------------- a sequence of calls on a manager
\* The public methods called one after the other on one manager, each call
\* awaited before the next is made.
MaxCalls == 3

runVars == <<cfg, pc, srcIdx, data, chunks, chunkNo, i, running, awaited, settled,
             results, totalTests, summary, thrown, loaded, startLog, outcomes,
             firstFail>>

\* no run of executeDataDrivenTests is followed step by step
NoRun ==
    /\ cfg = [dataSources |-> <<>>, parallel |-> FALSE,
              maxConcurrency |-> DefaultMaxConcurrency,
              continueOnFailure |-> TRUE, generateReport |-> TRUE]
    /\ pc = "idle"
    /\ srcIdx = 1
    /\ data = <<>>
    /\ chunks = <<>>
    /\ chunkNo = 1
    /\ i = 0
    /\ running = {}
    /\ awaited = {}
    /\ settled = <<>>
    /\ results = <<>>
    /\ totalTests = 0
    /\ summary = NoSummary
    /\ thrown = NoError
    /\ loaded = <<>>
    /\ startLog = <<>>
    /\ outcomes = <<>>
    /\ firstFail = NoError

\* a manager just constructed, the files of `files` on the disk
Manager(files) ==
    /\ disk = files
    /\ testDataCache = <<>>
    /\ configCache = <<>>
    /\ NoRun
    /\ lastCall = NoCall
    /\ returned = <<>>
    /\ callCount = 0

\* the manager alone: its calls are made one after the other
Constructed(files) ==
    /\ Manager(files)
    /\ NoEncryption
    /\ NoOverlap

CallsInit == Constructed(CallsDisk)

\* the orders a shuffle can produce
Orders(options) ==
    IF RandomSample(options) THEN Permutations(1..MaxRecords) ELSE {IdentityOrder}

\* a call without the call before it
Brief(call) == IF call.op = "loadTestData" THEN [call EXCEPT !.previous = NoCall] ELSE call

\* await manager.loadTestData(p, options)
CallLoadTestData(p, options) ==
    /\ callCount < MaxCalls
    /\ \E order \in Orders(options) :
           LET load == loadTestData(disk, testDataCache, p, options, order)
           IN  /\ testDataCache' = load.cache
               /\ lastCall' = [op |-> "loadTestData", path |-> p, options |-> options,
                               ok |-> load.ok, data |-> load.data, error |-> load.error,
                               hit |-> load.hit, reader |-> load.reader,
                               previous |-> Brief(lastCall)]
               /\ returned' = IF load.ok
                              THEN (<<p, options>> :> load.data) @@ returned
                              ELSE returned
    /\ callCount' = callCount + 1
    /\ UNCHANGED <<disk, configCache, runVars, encryptionVars, overlapVars>>

\* loadConfiguration(configPath, useCache) (lines 129-158)
loadConfiguration(d, cache, p, useCache) ==
    LET read == ReadFile(d, p)
    IN  IF useCache /\ p \in DOMAIN cache
        THEN [ok |-> TRUE, config |-> cache[p], error |-> NoError, cache |-> cache]
        ELSE IF ~read.ok
        THEN [ok |-> FALSE, config |-> Absent, error |-> read.error, cache |-> cache]
        ELSE [ok |-> TRUE, config |-> read.value, error |-> NoError,
              cache |-> IF useCache THEN CacheSet(cache, p, read.value) ELSE cache]

\* await manager.loadConfiguration(p, useCache)
CallLoadConfiguration(p, useCache) ==
    /\ callCount < MaxCalls
    /\ LET load == loadConfiguration(disk, configCache, p, useCache)
       IN  /\ configCache' = load.cache
           /\ lastCall' = [op |-> "loadConfiguration", path |-> p, useCache |-> useCache,
                           ok |-> load.ok, config |-> load.config, error |-> load.error]
    /\ callCount' = callCount + 1
    /\ UNCHANGED <<disk, testDataCache, returned, runVars, encryptionVars, overlapVars>>

\* a clear that leaves the map as it is
ClearNothing(map) == map

\* Map.prototype.clear
Clear(map) == <<>>

\* manager.clearCache() (lines 474-478)
CallClearCache ==
    /\ callCount < MaxCalls
    /\ testDataCache' = Clear(testDataCache)
    /\ configCache' = Clear(configCache)
    /\ lastCall' = [op |-> "clearCache", cleared |-> DOMAIN testDataCache]
    /\ returned' = <<>>
    /\ callCount' = callCount + 1
    /\ UNCHANGED <<disk, runVars, encryptionVars, overlapVars>>

\* manager.getCacheStats()
CallGetCacheStats ==
    /\ callCount < MaxCalls
    /\ lastCall' = [op |-> "getCacheStats", stats |-> getCacheStats]
    /\ callCount' = callCount + 1
    /\ UNCHANGED <<disk, testDataCache, configCache, returned, runVars, encryptionVars, overlapVars>>

\* exportData(data, outputPath) without encryption (lines 311-388): the
\* writer of the format writes the records to the file; [ok, error, disk',
\* whether a writer was invoked]
exportData(d, list, p) ==
    IF SupportedFormat(ToLowerCase(p.ext))
    THEN [ok |-> TRUE, error |-> NoError, disk |-> [d EXCEPT ![p] = ArrayFile(list)],
          writer |-> TRUE]
    ELSE [ok |-> FALSE, error |-> Error("Unsupported export format", p, 0, 0),
          disk |-> d, writer |-> FALSE]

\* await manager.exportData(list, p)
CallExportData(list, p) ==
    /\ callCount < MaxCalls
    /\ LET export == exportData(disk, list, p)
       IN  /\ disk' = export.disk
           /\ lastCall' = [op |-> "exportData", path |-> p, data |-> list,
                           ok |-> export.ok, error |-> export.error,
                           writer |-> export.writer]
    /\ callCount' = callCount + 1
    /\ UNCHANGED <<testDataCache, configCache, returned, runVars, encryptionVars, overlapVars>>

\* a record that is null ([null] is a JSON array as any other)
NullRecord == [kind |-> "null", ref |-> 0, t |-> <<>>, val |-> ""]

IsNull(record) == record.kind = "null"

\* Object.keys(record).sort(): the field of an object, the character
\* positions of a string (of null it throws, see ChecksThrow)
Keys(record) ==
    IF record.kind = "object" THEN <<"t">>
    ELSE [n \in 1..Len(<<record.val>>) |-> Digits[n]]

Issue(source, issue, severity) == [source |-> source, issue |-> issue, severity |-> severity]

\* lines 424-436: one issue per record whose keys differ from the first's
RECURSIVE InconsistentStructure(_, _, _)
InconsistentStructure(source, list, n) ==
    IF n > Len(list) THEN <<>>
    ELSE (IF Keys(list[n]) # Keys(list[1])
          THEN <<Issue(source, <<"Inconsistent structure at record", n>>, "medium")>>
          ELSE <<>>) \o InconsistentStructure(source, list, n + 1)

requiredFields == <<"testType", "priority">>

\* lines 439-450: one issue per record and required field it lacks
MissingRequiredFields(source, list) ==
    Flatten([n \in 1..Len(list) |->
                Flatten([f \in 1..Len(requiredFields) |->
                            IF ~Field(list[n], requiredFields[f]).defined
                            THEN <<Issue(source, <<"Missing required field",
                                                  requiredFields[f]>>, "medium")>>
                            ELSE <<>>])])

\* Object.keys(null) and null[field] throw a TypeError: the checks of lines
\* 424-450 throw when they come to a record that is null
ChecksThrow(list) == \E n \in 1..Len(list) : IsNull(list[n])

\* the records before the first null one
BeforeNull(list) ==
    IF ChecksThrow(list)
    THEN Slice(list, 0, (CHOOSE n \in 1..Len(list) :
                            /\ IsNull(list[n])
                            /\ \A m \in 1..(n - 1) : ~IsNull(list[m])) - 1)
    ELSE list

\* lines 412-450: the issues the checks push for a list that was loaded,
\* up to the record at which they throw
CheckIssues(source, list) ==
    (IF Len(list) = 0
     THEN <<Issue(source, <<"Data source is empty">>, "high")>>
     ELSE <<>>)
        \o InconsistentStructure(source, BeforeNull(list), 2)
        \o (IF ChecksThrow(list) THEN <<>> ELSE MissingRequiredFields(source, list))

TypeError == Error("Cannot read properties of null", Absent, 0, 0)

\* a catch block that records nothing
CatchIssueNone(source, error) == <<>>

\* lines 451-457: the catch block pushes one high-severity issue
CatchIssue(source, error) ==
    <<Issue(source, <<"Failed to load data source", error.what>>, "high")>>

\* lines 409-459: the sources from number n on; [valid, issues, cache,
\* loads: for each source whether it loaded and whether a reader was
\* invoked for it]
RECURSIVE ValidateFrom(_, _, _, _, _, _, _)
ValidateFrom(d, cache, dataSources, n, valid, issues, loads) ==
    IF n > Len(dataSources)
    THEN [valid |-> valid, issues |-> issues, cache |-> cache, loads |-> loads]
    ELSE LET source == dataSources[n]
             load == loadTestData(d, cache, source,
                                  Options(<<"useCache">>, FALSE, <<>>, 0, FALSE),
                                  IdentityOrder)
             done == Append(loads, [source |-> source, ok |-> load.ok,
                                    reader |-> load.reader, data |-> load.data])
         IN  IF load.ok
             THEN ValidateFrom(d, load.cache, dataSources, n + 1,
                               valid /\ Len(load.data) # 0 /\ ~ChecksThrow(load.data),
                               issues
                                   \o CheckIssues(source, load.data)
                                   \o (IF ChecksThrow(load.data)
                                       THEN CatchIssue(source, TypeError)
                                       ELSE <<>>),
                               done)
             ELSE ValidateFrom(d, load.cache, dataSources, n + 1, FALSE,
                               issues \o CatchIssue(source, load.error), done)

validateDataIntegrity(d, cache, dataSources) ==
    ValidateFrom(d, cache, dataSources, 1, TRUE, <<>>, <<>>)

\* await manager.validateDataIntegrity(dataSources)
CallValidateDataIntegrity(dataSources) ==
    /\ callCount < MaxCalls
    /\ LET validation == validateDataIntegrity(disk, testDataCache, dataSources)
       IN  /\ testDataCache' = validation.cache
           /\ lastCall' = [op |-> "validateDataIntegrity", dataSources |-> dataSources,
                           valid |-> validation.valid, issues |-> validation.issues,
                           loads |-> validation.loads]
    /\ callCount' = callCount + 1
    /\ UNCHANGED <<disk, configCache, returned, runVars, encryptionVars, overlapVars>>

\* the results of a source whose testFunction invocations all return, in
\* sequential mode
PassedResults(srcNo, dataSource, list) ==
    [n \in 1..Len(list) |->
        Result(Invocation(srcNo, n - 1, list[n], n - 1, SourceLabel(dataSource)),
               "passed", NoError)]

\* lines 210-266, sequential mode, every testFunction invocation returning:
\* the data sources from number srcNo on; [ok, error, results, totalTests,
\* cache]
RECURSIVE RunFrom(_, _, _, _, _, _, _)
RunFrom(d, cache, dataSources, continueOnFailure, srcNo, list, total) ==
    IF srcNo > Len(dataSources)
    THEN [ok |-> TRUE, error |-> NoError, results |-> list, totalTests |-> total,
          cache |-> cache]
    ELSE LET dataSource == dataSources[srcNo]
             load == loadTestData(d, cache, dataSource.path, LoadOptions(dataSource),
                                  IdentityOrder)
         IN  IF load.ok
             THEN RunFrom(d, load.cache, dataSources, continueOnFailure, srcNo + 1,
                          Push(list, PassedResults(srcNo, dataSource, load.data)),
                          total + Len(load.data))
             ELSE IF AbortsRun(continueOnFailure)
             THEN [ok |-> FALSE, error |-> load.error, results |-> list,
                   totalTests |-> total, cache |-> load.cache]
             ELSE RunFrom(d, load.cache, dataSources, continueOnFailure, srcNo + 1,
                          list, total)

\* await manager.executeDataDrivenTests({testFunction, dataSources,
\* continueOnFailure}) with a testFunction that returns for every record:
\* the sources are loaded and run in turn, the report is written after the
\* last one
CallExecuteDataDrivenTests(dataSources, continueOnFailure) ==
    /\ callCount < MaxCalls
    /\ LET run == RunFrom(disk, testDataCache, dataSources, continueOnFailure,
                          1, <<>>, 0)
       IN  /\ testDataCache' = run.cache
           /\ lastCall' = [op |-> "executeDataDrivenTests", dataSources |-> dataSources,
                           continueOnFailure |-> continueOnFailure, ok |-> run.ok,
                           error |-> run.error,
                           summary |-> IF run.ok
                                       THEN Summary(run.totalTests, run.results)
                                       ELSE NoSummary]
           /\ configCache' = configCache
           /\ disk' = IF run.ok
                      THEN [disk EXCEPT
                               ![ReportPath] = ReportOf(Summary(run.totalTests, run.results),
                                                        CacheStats(run.cache, configCache))]
                      ELSE disk
    /\ callCount' = callCount + 1
    /\ UNCHANGED <<returned, runVars, encryptionVars, overlapVars>>

\* the calls made: paths, options, lists and data sources
CallPaths == {ObjsPath, PrimsPath, MissingPath, MalformedPath, NotesPath}

NoCacheOptions == Options(<<"useCache">>, FALSE, <<>>, 0, FALSE)

CallOptions == {NoOptions, NoCacheOptions}

SampleOptions ==
    {Options(<<"sampleSize">>, TRUE, <<>>, 1, FALSE),
     Options(<<"sampleSize", "randomSample">>, TRUE, <<>>, 1, TRUE)}

ExportLists == {<<ObjectRecord(3, Regression)>>}

ExportPaths == {ObjsPath, MissingPath, NotesPath}

ConfigCalls == {<<SinglePath, TRUE>>, <<SinglePath, FALSE>>, <<MissingPath, TRUE>>}

ValidatedSources == {<<ObjsPath>>, <<MissingPath, EmptyPath>>}

RunSources ==
    {<<Descriptor(ObjsPath, "", FALSE, <<>>, 0, FALSE)>>,
     <<Descriptor(MissingPath, "", FALSE, <<>>, 0, FALSE),
       Descriptor(ObjsPath, "smoke only", TRUE, <<[key |-> "t", value |-> Smoke]>>,
                  0, FALSE)>>}

LoadTestDataCalled ==
    \/ \E p \in CallPaths, options \in CallOptions : CallLoadTestData(p, options)
    \/ \E options \in SampleOptions : CallLoadTestData(ObjsPath, options)

LoadConfigurationCalled ==
    \E call \in ConfigCalls : CallLoadConfiguration(call[1], call[2])

ExportDataCalled ==
    \E list \in ExportLists, p \in ExportPaths : CallExportData(list, p)

ValidateDataIntegrityCalled ==
    \E dataSources \in ValidatedSources : CallValidateDataIntegrity(dataSources)

ExecuteDataDrivenTestsCalled ==
    \E dataSources \in RunSources, continueOnFailure \in BOOLEAN :
        CallExecuteDataDrivenTests(dataSources, continueOnFailure)

CallsNext ==
    \/ LoadTestDataCalled
    \/ LoadConfigurationCalled
    \/ CallClearCache
    \/ CallGetCacheStats
    \/ ExportDataCalled
    \/ ValidateDataIntegrityCalled
    \/ ExecuteDataDrivenTestsCalled

CallsSpec == CallsInit /\ [][CallsNext]_vars

\* ------------------------------------------- loads with filter criteria
\* criterion values, character by character
SmokeUpper == <<"S", "M", "O", "K", "E">>
TestStar == <<"t", "e", "s", "t", "*">>
TestStarUpper == <<"T", "E", "S", "T", "*">>
StarTest == <<"*", "t", "e", "s", "t">>
TStarG == <<"t", "*", "g">>

Criterion(key, value) == [key |-> key, value |-> value]

\* criteria objects, as the list of their entries
CriteriaGiven ==
    {<<>>,
     <<Criterion("t", Smoke)>>,
     <<Criterion("t", Regression)>>,
     <<Criterion("t", Testing)>>,
     <<Criterion("t", SmokeUpper)>>,
     <<Criterion("t", Smoke), Criterion("name", Smoke)>>,
     <<Criterion("name", Smoke)>>,
     <<Criterion("t", TestStar)>>,
     <<Criterion("t", TestStarUpper)>>,
     <<Criterion("t", StarTest)>>,
     <<Criterion("t", TStarG)>>}

FilterOptions ==
    {Options(<<"filterCriteria">>, TRUE, criteria, 0, FALSE) : criteria \in CriteriaGiven}

FilterPaths == {TagsPath, NamesPath}

\* the number of filtered loads followed
MaxLoads == 2

FilterInit == Constructed(FilterDisk)

FilterNext ==
    /\ callCount < MaxLoads
    /\ \E p \in FilterPaths, options \in FilterOptions : CallLoadTestData(p, options)

FilterSpec == FilterInit /\ [][FilterNext]_vars

\* ------------------------------------------------- loads with a sample
SamplesPath == Path("/data", "samples", ".json")

\* samples.json: MaxRecords distinct objects, smoke and regression in turn
SamplesContent ==
    [n \in 1..MaxRecords |-> ObjectRecord(n, IF n % 2 = 1 THEN Smoke ELSE Regression)]

SampleDisk == (SamplesPath :> ArrayFile(SamplesContent))

\* options with and without sampleSize (0 up to more than the file holds),
\* randomSample and a filter
SampleGiven ==
    {NoOptions, Options(<<"randomSample">>, TRUE, <<>>, 0, TRUE)}
        \cup {Options(<<"sampleSize">>, TRUE, <<>>, n, FALSE) : n \in 0..(MaxRecords + 1)}
        \cup {Options(<<"sampleSize", "randomSample">>, TRUE, <<>>, n, b) :
                  n \in 0..(MaxRecords + 1), b \in BOOLEAN}
        \cup {Options(<<"filterCriteria", "sampleSize", "randomSample">>, TRUE,
                      <<Criterion("t", Smoke)>>, n, b) :
                  n \in 0..(MaxRecords + 1), b \in BOOLEAN}

SampleInit == Constructed(SampleDisk)

SampleNext ==
    /\ callCount < MaxLoads
    /\ \E options \in SampleGiven : CallLoadTestData(SamplesPath, options)

SampleSpec == SampleInit /\ [][SampleNext]_vars

\* ------------------------------------------------ validation of sources
MixedPath == Path("/data", "mixed", ".json")
NullsPath == Path("/data", "nulls", ".json")

\* mixed.json: [{t:"smoke"}, "x"]; nulls.json: [{t:"smoke"}, null]
MixedContent == <<ObjectRecord(1, Smoke), StringRecord("x")>>
NullsContent == <<ObjectRecord(1, Smoke), NullRecord>>

ValidateDisk ==
    (MixedPath :> ArrayFile(MixedContent)) @@ (NullsPath :> ArrayFile(NullsContent))
        @@ CallsDisk

ValidatePaths == {ObjsPath, MixedPath, EmptyPath, MissingPath, NullsPath}

\* the lists of sources validated: up to MaxSources distinct paths
ValidateLists ==
    {list \in UNION {[1..n -> ValidatePaths] : n \in 0..MaxSources} :
        \A m, n \in DOMAIN list : list[m] = list[n] => m = n}

\* the paths loaded before and after a validation
ValidateLoads == {ObjsPath, EmptyPath, MissingPath}

ValidateInit == Constructed(ValidateDisk)

ValidateNext ==
    /\ callCount < MaxLoads
    /\ \/ \E dataSources \in ValidateLists : CallValidateDataIntegrity(dataSources)
       \/ \E p \in ValidateLoads, options \in CallOptions : CallLoadTestData(p, options)
       \/ CallLoadConfiguration(SinglePath, TRUE)

ValidateSpec == ValidateInit /\ [][ValidateNext]_vars

\* --------------------------------------------------------- DataEncryption
\* the longest text encrypted and the longest key given
MaxText == 3
MaxKey == 2

\* the characters of texts and keys, with their character codes
CharCode == ("a" :> 97) @@ ("k" :> 107) @@ (":" :> 58)

Chars == DOMAIN CharCode

\* Buffer.from(text): the bytes of the text (one per character here)
Bytes(text) == [n \in 1..Len(text) |-> CharCode[text[n]]]

\* the base64 padding character, after the 64 digits 0..63
Pad == 64

\* buffer.toString('base64'): the base64 digits of the bytes, padded
RECURSIVE Base64Encode(_)
Base64Encode(bytes) ==
    CASE Len(bytes) = 0 -> <<>>
      [] Len(bytes) = 1 -> <<bytes[1] \div 4, (bytes[1] % 4) * 16, Pad, Pad>>
      [] Len(bytes) = 2 -> <<bytes[1] \div 4,
                             (bytes[1] % 4) * 16 + bytes[2] \div 16,
                             (bytes[2] % 16) * 4, Pad>>
      [] OTHER -> <<bytes[1] \div 4,
                    (bytes[1] % 4) * 16 + bytes[2] \div 16,
                    (bytes[2] % 16) * 4 + bytes[3] \div 64,
                    bytes[3] % 64>> \o Base64Encode(SubSeq(bytes, 4, Len(bytes)))

\* the digits before the first padding character
RECURSIVE BeforePad(_)
BeforePad(digits) ==
    IF digits = <<>> \/ Head(digits) = Pad THEN <<>>
    ELSE <<Head(digits)>> \o BeforePad(Tail(digits))

\* the bytes of a run of base64 digits
RECURSIVE DigitsToBytes(_)
DigitsToBytes(digits) ==
    CASE Len(digits) < 2 -> <<>>
      [] Len(digits) = 2 -> <<digits[1] * 4 + digits[2] \div 16>>
      [] Len(digits) = 3 -> <<digits[1] * 4 + digits[2] \div 16,
                              (digits[2] % 16) * 16 + digits[3] \div 4>>
      [] OTHER -> <<digits[1] * 4 + digits[2] \div 16,
                    (digits[2] % 16) * 16 + digits[3] \div 4,
                    (digits[3] % 4) * 64 + digits[4]>>
                      \o DigitsToBytes(SubSeq(digits, 5, Len(digits)))

\* Buffer.from(encryptedText, 'base64')
Base64Decode(digits) == DigitsToBytes(BeforePad(digits))

\* buffer.toString('utf8'), for the bytes of the characters above
Utf8(bytes) ==
    [n \in 1..Len(bytes) |-> CHOOSE c \in Chars : CharCode[c] = bytes[n]]

\* decoded.split(':')
RECURSIVE Split(_)
Split(str) ==
    IF \E n \in 1..Len(str) : str[n] = ":"
    THEN LET at == CHOOSE n \in 1..Len(str) :
                       /\ str[n] = ":"
                       /\ \A m \in 1..(n - 1) : str[m] # ":"
         IN  <<SubSeq(str, 1, at - 1)>> \o Split(SubSeq(str, at + 1, Len(str)))
    ELSE <<str>>

\* parts.join(':')
RECURSIVE Join(_)
Join(parts) ==
    CASE Len(parts) = 0 -> <<>>
      [] Len(parts) = 1 -> parts[1]
      [] OTHER -> parts[1] \o <<":">> \o Join(Tail(parts))

\* encrypt(text) of an instance holding secretKey (lines 622-636)
encrypt(key, text) ==
    IF text = <<>>
    THEN [ok |-> FALSE, value |-> <<>>]
    ELSE [ok |-> TRUE, value |-> Base64Encode(Bytes(text \o <<":">> \o key))]

\* decrypt(encryptedText) of an instance holding secretKey (lines 643-664)
decrypt(key, encryptedText) ==
    IF encryptedText = <<>>
    THEN [ok |-> FALSE, value |-> <<>>]
    ELSE LET decoded == Utf8(Base64Decode(encryptedText))
             parts == Split(decoded)
         IN  IF Len(parts) < 2 \/ parts[2] = <<>> \/ parts[2] # key
             THEN [ok |-> FALSE, value |-> <<>>]
             ELSE [ok |-> TRUE, value |-> Join(SubSeq(parts, 1, Len(parts) - 1))]

\* the texts encrypted (the empty one among them) and the keys given to the
\* constructor (a key that is not empty is taken as it is, line 613)
Texts == UNION {[1..n -> Chars] : n \in 0..MaxText}

KeysGiven == UNION {[1..n -> Chars] : n \in 1..MaxKey}

\* the two DataEncryption instances
Instances == {1, 2}

\* new DataEncryption(key), twice
EncryptInit ==
    /\ Manager(<<>>)
    /\ NoOverlap
    /\ secretKey \in [Instances -> KeysGiven]
    /\ encrypted = [op |-> "none"]
    /\ decrypted = [op |-> "none"]

\* await instance.encrypt(text): one text is encrypted
CallEncrypt(instance, text) ==
    /\ encrypted.op = "none"
    /\ LET encryption == encrypt(secretKey[instance], text)
       IN  encrypted' = [op |-> "encrypt", by |-> instance, text |-> text,
                         ok |-> encryption.ok, value |-> encryption.value]
    /\ decrypted' = [op |-> "none"]
    /\ UNCHANGED <<disk, testDataCache, configCache, lastCall, returned, callCount,
                   runVars, secretKey, overlapVars>>

\* await instance.decrypt(encryptedText), with the text encrypt returned last
CallDecrypt(instance) ==
    /\ encrypted.op = "encrypt"
    /\ encrypted.ok
    /\ LET decryption == decrypt(secretKey[instance], encrypted.value)
       IN  decrypted' = [op |-> "decrypt", by |-> instance, ok |-> decryption.ok,
                         value |-> decryption.value]
    /\ UNCHANGED <<disk, testDataCache, configCache, lastCall, returned, callCount,
                   runVars, secretKey, encrypted, overlapVars>>

EncryptNext ==
    \/ \E instance \in Instances, text \in Texts : CallEncrypt(instance, text)
    \/ \E instance \in Instances : CallDecrypt(instance)

EncryptSpec == EncryptInit /\ [][EncryptNext]_vars

\* ------------------------------------------ overlapping loadTestData calls
\* Calls made without awaiting the ones before: a call runs up to its first
\* await (the cache check of line 57, then the reader call of lines 68-92)
\* and goes on after it (lines 97-116) once the reader's promise is settled;
\* the calls suspended go on in any order.
MaxOverlap == 2

\* a call in flight: pc "reading" (suspended at the await of the reader) or
\* "done"; `during`: the positions of the calls suspended when it began
Flight(p, options, state, read, load, during) ==
    [path |-> p, options |-> options, pc |-> state, read |-> read, ok |-> load.ok,
     data |-> load.data, hit |-> load.hit, reader |-> load.reader, during |-> during]

Suspended == {n \in 1..Len(inFlight) : inFlight[n].pc = "reading"}

NoRead == [ok |-> FALSE, error |-> NoError, value |-> Absent]

\* manager.loadTestData(p, options), not awaited: lines 47-92 up to the
\* await.  A cache hit and an unsupported format end the call at once; else
\* the reader is called (readJSONFile reads the file within the call).
BeginLoadTestData(p, options) ==
    /\ Len(inFlight) < MaxOverlap
    /\ inFlight' =
           Append(inFlight,
                  IF CacheHit(UseCache(options), testDataCache, CacheKey(p, options))
                     \/ ~SupportedFormat(ToLowerCase(p.ext))
                  THEN Flight(p, options, "done", NoRead,
                              loadTestData(disk, testDataCache, p, options, IdentityOrder),
                              Suspended)
                  ELSE Flight(p, options, "reading", ReadFile(disk, p),
                              Loaded(FALSE, <<>>, NoError, <<>>, FALSE, TRUE),
                              Suspended))
    /\ UNCHANGED <<disk, testDataCache, configCache, lastCall, returned, callCount,
                   runVars, encryptionVars>>

\* the call at position n goes on after its await: lines 97-116, or the
\* catch block of lines 118-121 when the reader failed
ResumeLoadTestData(n) ==
    /\ n \in Suspended
    /\ LET call == inFlight[n]
           cacheKey == CacheKey(call.path, call.options)
       IN  IF call.read.ok
           THEN \E order \in Orders(call.options) :
                    LET reduced == Reduce(call.read.value.items, call.options, order)
                    IN  /\ testDataCache' = IF StoresResult(UseCache(call.options))
                                            THEN CacheSet(testDataCache, cacheKey, reduced)
                                            ELSE testDataCache
                        /\ inFlight' = [inFlight EXCEPT ![n].pc = "done", ![n].ok = TRUE,
                                                        ![n].data = reduced]
           ELSE /\ testDataCache' = CacheAfterFailure(testDataCache, cacheKey)
                /\ inFlight' = [inFlight EXCEPT ![n].pc = "done"]
    /\ UNCHANGED <<disk, configCache, lastCall, returned, callCount, runVars,
                   encryptionVars>>

OverlapPaths == {ObjsPath, PrimsPath, MissingPath, NotesPath}

OverlapOptions == CallOptions \cup SampleOptions

OverlapInit ==
    /\ Manager(CallsDisk)
    /\ NoEncryption
    /\ NoOverlap

OverlapNext ==
    \/ \E p \in OverlapPaths, options \in OverlapOptions : BeginLoadTestData(p, options)
    \/ \E n \in 1..MaxOverlap : ResumeLoadTestData(n)

OverlapSpec == OverlapInit /\ [][OverlapNext]_vars

\* ------------------------------------------------------------ properties
Key(inv) == <<inv.srcNo, inv.pos>>

Finished(srcNo, pos) == <<srcNo, pos>> \in DOMAIN outcomes

\* the chunk a position of a source belongs to
ChunkOf(pos) == pos \div cfg.maxConcurrency

\* C1: in parallel mode with maxConcurrency = k >= 1, the number of
\* testFunction invocations started and not yet finished is at most k at
\* every moment.
C1_BoundedConcurrency ==
    cfg.parallel => Cardinality(running) <= cfg.maxConcurrency

\* a source longer than k = 2 with a full chunk of 2 invocations in flight
C1_Witness ==
    /\ cfg.parallel
    /\ cfg.maxConcurrency = 2
    /\ pc = "await"
    /\ Len(data) > 2
    /\ Cardinality(running) = 2

\* C2: in parallel mode no invocation of chunk j+1 starts before every
\* invocation for the records of chunk j of the same source has finished,
\* and none of the next source starts before the last chunk of the previous
\* source has finished.
C2_ChunkBarrier ==
    cfg.parallel =>
        LET unfinished == {u \in {<<srcNo, pos>> : srcNo \in 1..Len(loaded),
                                                   pos \in 0..(MaxRecords - 1)} :
                              /\ u[2] < Len(loaded[u[1]])
                              /\ ~Finished(u[1], u[2])}
        IN  \A n \in 1..Len(startLog) :
                \A u \in unfinished :
                    /\ u[1] >= startLog[n].srcNo
                    /\ u[1] = startLog[n].srcNo
                           => ChunkOf(u[2]) >= ChunkOf(startLog[n].pos)

\* the second chunk of the second source is in flight, after a first source
\* of more than one chunk
C2_Witness ==
    /\ cfg.parallel
    /\ \E a \in running : a.srcNo = 2 /\ ChunkOf(a.pos) = 1
    /\ Len(loaded[1]) > cfg.maxConcurrency

\* C3: in parallel mode the index passed to testFunction and stored in the
\* result of a record is the record's position in the loaded list of its
\* source, for every record list and completion order; the indices of the
\* n results of a source are 0..n-1, each once.
C3_IndexIsPosition ==
    cfg.parallel =>
        /\ \A n \in 1..Len(startLog) : startLog[n].index = startLog[n].pos
        /\ \A n \in 1..Len(results) : results[n].index = results[n].pos
        /\ pc = "returned" =>
               \A srcNo \in 1..Len(loaded) :
                   \A pos \in 0..(Len(loaded[srcNo]) - 1) :
                       Cardinality({n \in 1..Len(results) :
                                       /\ results[n].srcNo = srcNo
                                       /\ results[n].index = pos}) = 1


\* the invocations started for one source, in start order
StartsOf(srcNo) == SelectSeq(startLog, LAMBDA inv : inv.srcNo = srcNo)

\* sequential mode: at most one invocation in flight, each started only
\* after its predecessor finished, positions of a source ascending from 0
\* without gap or repetition
SequentialOrder ==
    /\ Cardinality(running) <= 1
    /\ \A n \in 1..(Len(startLog) - 1) : Finished(startLog[n].srcNo, startLog[n].pos)
    /\ \A srcNo \in 1..Len(loaded) :
           LET starts == StartsOf(srcNo)
           IN  \A n \in 1..Len(starts) : starts[n].pos = n - 1 /\ starts[n].index = n - 1

\* C4 (as stated): in sequential mode testFunction is invoked exactly once
\* per record of a source in ascending index order, one invocation at a
\* time.
C4_SequentialExactlyOnce ==
    ~cfg.parallel =>
        /\ SequentialOrder
        /\ pc \in {"returned", "thrown"} =>
               \A srcNo \in 1..Len(loaded) : Len(StartsOf(srcNo)) = Len(loaded[srcNo])

\* C4 (amended): in sequential mode testFunction is invoked at most once per
\* record, in ascending index order without gaps, one invocation at a time;
\* every record of a source whose loop ended is invoked exactly once, and
\* when continueOnFailure is false the failing invocation is the last one
\* started.
C4_SequentialOrderUntilAbort ==
    ~cfg.parallel =>
        /\ SequentialOrder
        /\ \A srcNo \in 1..Len(loaded) :
               srcNo < srcIdx => Len(StartsOf(srcNo)) = Len(loaded[srcNo])
        /\ (pc = "thrown" /\ thrown.what = "test failed") =>
               /\ ~cfg.continueOnFailure
               /\ Key(startLog[Len(startLog)]) = <<thrown.srcNo, thrown.pos>>

\* the third record of a source is running after an earlier one failed
C4_Witness ==
    /\ ~cfg.parallel
    /\ firstFail # NoError
    /\ \E inv \in running : inv.pos = 2 /\ inv.srcNo = firstFail.srcNo

\* a result list ordered by data source, then by record position (each
\* result before its successor)
Ordered(list) ==
    \A n \in 1..(Len(list) - 1) :
        \/ list[n].srcNo < list[n + 1].srcNo
        \/ list[n].srcNo = list[n + 1].srcNo /\ list[n].pos < list[n + 1].pos

\* C5: in every returned summary the results of an earlier data source
\* precede those of a later one and, within a source, the results appear in
\* ascending order of the records' positions, in sequential and in parallel
\* mode, whatever the completion order inside a chunk.
C5_ResultsOrdered ==
    /\ Ordered(results)
    /\ pc = "returned" => Ordered(summary.results)

\* a parallel run returned although, inside one chunk, a later record
\* finished (failing) before an earlier one
C5_Witness ==
    /\ pc = "returned"
    /\ cfg.parallel
    /\ firstFail # NoError
    /\ \E n \in 1..Len(summary.results) :
           LET r == summary.results[n]
           IN  /\ r.srcNo = firstFail.srcNo
               /\ r.pos < firstFail.pos
               /\ ChunkOf(r.pos) = ChunkOf(firstFail.pos)
               /\ r.status = "failed"
    /\ \E n \in 1..Len(summary.results) : summary.results[n].srcNo # firstFail.srcNo

\* every record of every source processed so far has been executed
AllExecuted ==
    \A srcNo \in 1..Len(loaded) :
        \A pos \in 0..(Len(loaded[srcNo]) - 1) : Finished(srcNo, pos)

\* a result states what its invocation did
Faithful(r) ==
    /\ Finished(r.srcNo, r.pos)
    /\ LET error == outcomes[<<r.srcNo, r.pos>>]
       IN  IF error = NoError
           THEN r.status = "passed" /\ r.error = NoError
           ELSE r.status = "failed" /\ r.error = error

\* C6: with continueOnFailure = true a throwing invocation yields a "failed"
\* result carrying the thrown error's message, a successful one a "passed"
\* result, and no throw of testFunction keeps another record of the same or
\* of a later source from being executed or makes executeDataDrivenTests
\* throw.
C6_FailureIsolated ==
    cfg.continueOnFailure =>
        /\ \A n \in 1..Len(results) : Faithful(results[n])
        /\ pc = "thrown" => thrown.what # "test failed"
        /\ pc \in {"report", "returned", "thrown"} =>
               /\ Len(loaded) = Len(cfg.dataSources)
               /\ AllExecuted
               /\ \A srcNo \in 1..Len(loaded) :
                      \A pos \in 0..(Len(loaded[srcNo]) - 1) :
                          \E n \in 1..Len(results) :
                              results[n].srcNo = srcNo /\ results[n].pos = pos

\* a summary was returned with a failed result followed by a passed one of
\* the same source and by results of a later source
C6_Witness ==
    /\ cfg.continueOnFailure
    /\ pc = "returned"
    /\ \E m, n \in 1..Len(summary.results) :
           /\ m < n
           /\ summary.results[m].status = "failed"
           /\ summary.results[m].error = TestError(1, summary.results[m].pos)
           /\ summary.results[n].status = "passed"
           /\ summary.results[n].srcNo = 1
    /\ \E n \in 1..Len(summary.results) : summary.results[n].srcNo = 2

\* C7: with continueOnFailure = false, when a testFunction invocation fails,
\* executeDataDrivenTests throws that error, returns no summary and writes
\* no report, also when generateReport is true.
C7_FailureAborts ==
    (~cfg.continueOnFailure /\ firstFail # NoError) =>
        /\ pc = "thrown"
        /\ thrown = firstFail
        /\ summary = NoSummary
        /\ disk[ReportPath] = Absent

\* the run threw the error of a failing invocation, after an earlier record
\* had passed, with generateReport = true
C7_Witness ==
    /\ ~cfg.continueOnFailure
    /\ cfg.generateReport
    /\ pc = "thrown"
    /\ thrown.what = "test failed"
    /\ Len(results) >= 1

\* C8 (as stated): with continueOnFailure = false the first failure aborts
\* the remaining work: no invocation is started afterwards for a remaining
\* record or data source, and none is still running when the error reaches
\* the caller.
C8_AbortLeavesNothingRunning ==
    (~cfg.continueOnFailure /\ firstFail # NoError) =>
        /\ pc = "thrown"
        /\ running = {}
        /\ \A n \in 1..Len(startLog) :
               /\ startLog[n].srcNo = firstFail.srcNo
                      => ChunkOf(startLog[n].pos) <= ChunkOf(firstFail.pos)
               /\ startLog[n].srcNo <= firstFail.srcNo

\* C9: a returned summary holds exactly one result for each (data source,
\* record) pair of the loaded records, none missing, none duplicated.
C9_OneResultPerRecord ==
    pc = "returned" =>
        /\ Len(loaded) = Len(cfg.dataSources)
        /\ \A srcNo \in 1..Len(loaded) :
               \A pos \in 0..(Len(loaded[srcNo]) - 1) :
                   /\ Cardinality({n \in 1..Len(summary.results) :
                                      /\ summary.results[n].srcNo = srcNo
                                      /\ summary.results[n].pos = pos}) = 1
                   /\ \A n \in 1..Len(summary.results) :
                          (summary.results[n].srcNo = srcNo /\ summary.results[n].pos = pos)
                              => /\ summary.results[n].data = loaded[srcNo][pos + 1]
                                 /\ summary.results[n].source
                                        = SourceLabel(cfg.dataSources[srcNo])
        /\ \A n \in 1..Len(summary.results) :
               /\ summary.results[n].srcNo \in 1..Len(loaded)
               /\ summary.results[n].pos \in 0..(Len(loaded[summary.results[n].srcNo]) - 1)

\* a parallel run over two sources of at least two records each returned
\* its summary, with one result for every record
C9_Witness ==
    /\ pc = "returned"
    /\ cfg.parallel
    /\ Len(cfg.dataSources) = 2
    /\ Len(loaded[1]) >= 2
    /\ Len(loaded[2]) >= 2
    /\ Len(summary.results) = Len(loaded[1]) + Len(loaded[2])

\* the number of results of a list with a status
NumberWithStatus(list, status) ==
    Cardinality({n \in 1..Len(list) : list[n].status = status})

\* C10: in every returned summary passed, failed and skipped equal the
\* number of results with that status, and totalTests = passed + failed +
\* skipped = the length of the results list.
C10_SummaryCounts ==
    pc = "returned" =>
        /\ summary.passed = NumberWithStatus(summary.results, "passed")
        /\ summary.failed = NumberWithStatus(summary.results, "failed")
        /\ summary.skipped = NumberWithStatus(summary.results, "skipped")
        /\ summary.totalTests = summary.passed + summary.failed + summary.skipped
        /\ summary.totalTests = Len(summary.results)

\* a summary with passed and failed results of two sources, one source
\* having failed to load
C10_Witness ==
    /\ pc = "returned"
    /\ summary.passed >= 1
    /\ summary.failed >= 2
    /\ summary.totalTests >= 4

\* the file of source number srcNo does not exist: loading it fails
LoadFails(srcNo) == disk[cfg.dataSources[srcNo].path].kind = "absent"

\* the number of records of the sources processed so far that loaded
RECURSIVE RecordsLoaded(_)
RecordsLoaded(srcNo) ==
    IF srcNo = 0 THEN 0
    ELSE RecordsLoaded(srcNo - 1) + (IF LoadFails(srcNo) THEN 0 ELSE Len(loaded[srcNo]))

\* C11: when loading a data source fails, with continueOnFailure = true the
\* source contributes no invocation, no result and nothing to totalTests,
\* the run goes on with the next source and does not throw the load error;
\* with continueOnFailure = false executeDataDrivenTests throws the load
\* error, returns no summary and processes no later source.
C11_LoadFailure ==
    /\ totalTests = RecordsLoaded(Len(loaded))
    /\ pc = "returned" => summary.totalTests = RecordsLoaded(Len(cfg.dataSources))
    /\ \A srcNo \in 1..Len(loaded) :
           LoadFails(srcNo) =>
               /\ \A n \in 1..Len(startLog) : startLog[n].srcNo # srcNo
               /\ \A n \in 1..Len(results) : results[n].srcNo # srcNo
               /\ IF cfg.continueOnFailure
                  THEN /\ srcIdx > srcNo
                       /\ thrown.what # "file not found"
                  ELSE /\ pc = "thrown"
                       /\ thrown = Error("file not found", cfg.dataSources[srcNo].path, 0, 0)
                       /\ summary = NoSummary
                       /\ srcIdx = srcNo
                       /\ Len(loaded) = srcNo

\* a summary was returned with the results of the second source, the first
\* source having failed to load
C11_Witness ==
    /\ cfg.continueOnFailure
    /\ pc = "returned"
    /\ Len(cfg.dataSources) = 2
    /\ LoadFails(1)
    /\ summary.totalTests = Len(loaded[2])
    /\ Len(summary.results) >= 2

\* the options a Data Source Descriptor stands for: its filter criteria,
\* its sample size and its random-sample flag
DescriptorOptions(dataSource) ==
    Options((IF dataSource.hasFilter THEN <<"filterCriteria">> ELSE <<>>)
                \o (IF dataSource.sampleSize # 0 THEN <<"sampleSize">> ELSE <<>>)
                \o (IF dataSource.randomSample THEN <<"randomSample">> ELSE <<>>),
            TRUE, dataSource.filterCriteria, dataSource.sampleSize,
            dataSource.randomSample)

\* the list loadTestData returns for the path of a descriptor with the
\* options of the descriptor
Selected(dataSource) ==
    loadTestData(disk, <<>>, dataSource.path, DescriptorOptions(dataSource),
                 IdentityOrder).data

\* C12 (as stated): executeDataDrivenTests runs testFunction on exactly the
\* records the descriptor of a source selects: the records of the source
\* reduced by its filter criteria, then by its sample size and random-sample
\* flag.
C12_RunsSelectedRecords ==
    /\ \A srcNo \in 1..Len(loaded) :
           ~LoadFails(srcNo) => loaded[srcNo] = Selected(cfg.dataSources[srcNo])
    /\ \A n \in 1..Len(startLog) :
           startLog[n].pos < Len(Selected(cfg.dataSources[startLog[n].srcNo]))

\* the last call was loadTestData
LoadCalled == lastCall.op = "loadTestData"

\* C13: when loadTestData is called with useCache enabled, with a path and
\* options that an earlier call returned a list for, and clearCache was not
\* called in between, the call returns a list equal to that list and invokes
\* no format reader.
C13_SecondCallFromCache ==
    [][(/\ lastCall'.op = "loadTestData"
        /\ UseCache(lastCall'.options)
        /\ <<lastCall'.path, lastCall'.options>> \in DOMAIN returned)
           => /\ lastCall'.ok
              /\ lastCall'.data = returned[<<lastCall'.path, lastCall'.options>>]
              /\ ~lastCall'.reader]_vars

\* a random sample of one record was returned a second time without a
\* reader being invoked
C13_Witness ==
    /\ LoadCalled
    /\ lastCall.previous.op = "loadTestData"
    /\ lastCall.previous.ok
    /\ lastCall.previous.path = lastCall.path
    /\ lastCall.previous.options = lastCall.options
    /\ RandomSample(lastCall.options)
    /\ lastCall.data = lastCall.previous.data
    /\ ~lastCall.reader

\* C14 (as stated): whenever loadTestData answers from the cache, the list
\* it returns is what a fresh load with the same path and options produces
\* at that moment.
C14_CacheHitIsFresh ==
    (LoadCalled /\ lastCall.hit) =>
        \E order \in Orders(lastCall.options) :
            LET fresh == loadTestData(disk, <<>>, lastCall.path, lastCall.options, order)
            IN  fresh.ok /\ fresh.data = lastCall.data

\* C15: after clearCache both caches are empty and getCacheStats reports 0
\* entries for each; a loadTestData call that follows it with a path and
\* options cached before the clear invokes the format reader again.
C15_ClearCacheEmpties ==
    /\ lastCall.op = "clearCache" =>
           /\ testDataCache = <<>>
           /\ configCache = <<>>
           /\ getCacheStats = [testDataEntries |-> 0, configEntries |-> 0]
    /\ (/\ LoadCalled
        /\ lastCall.previous.op = "clearCache"
        /\ CacheKey(lastCall.path, lastCall.options) \in lastCall.previous.cleared)
           => lastCall.reader /\ ~lastCall.hit

\* a list cached before clearCache was loaded again from its file
C15_Witness ==
    /\ LoadCalled
    /\ lastCall.previous.op = "clearCache"
    /\ CacheKey(lastCall.path, lastCall.options) \in lastCall.previous.cleared
    /\ lastCall.ok
    /\ lastCall.reader

\* C16: no call other than clearCache removes an entry of the record cache
\* or replaces its list.
C16_EntriesStay ==
    [][lastCall'.op # "clearCache"
           => \A cacheKey \in DOMAIN testDataCache :
                  /\ cacheKey \in DOMAIN testDataCache'
                  /\ testDataCache'[cacheKey] = testDataCache[cacheKey]]_vars

\* the cache holds the list loaded from a file that exportData has since
\* overwritten, and a further list
C16_Witness ==
    /\ lastCall.op = "loadTestData"
    /\ lastCall.ok
    /\ lastCall.reader
    /\ lastCall.previous.op = "exportData"
    /\ lastCall.previous.path = ObjsPath
    /\ CacheKey(ObjsPath, NoOptions) \in DOMAIN testDataCache
    /\ testDataCache[CacheKey(ObjsPath, NoOptions)] = ObjsContent
    /\ Cardinality(DOMAIN testDataCache) = 2

\* C17: a loadTestData call that fails throws an error to its caller and
\* leaves the cache as it was before the call.
C17_FailureNotCached ==
    [][(lastCall'.op = "loadTestData" /\ ~lastCall'.ok)
           => /\ lastCall'.error # NoError
              /\ testDataCache' = testDataCache
              /\ configCache' = configCache]_vars

\* the load of a malformed file failed in its reader while the cache held
\* an entry
C17_Witness ==
    /\ LoadCalled
    /\ ~lastCall.ok
    /\ lastCall.reader
    /\ lastCall.error.what = "Invalid JSON format"
    /\ UseCache(lastCall.options)
    /\ testDataCache # <<>>

\* C18: loadTestData and exportData on a path whose extension, lower-cased,
\* is none of .csv, .xlsx, .xls, .json fail with an unsupported-format
\* error; no reader or writer is invoked, cache and disk stay as they were.
C18_UnsupportedFormat ==
    [][(/\ lastCall'.op \in {"loadTestData", "exportData"}
        /\ ToLowerCase(lastCall'.path.ext) \notin {".csv", ".xlsx", ".xls", ".json"})
           => /\ ~lastCall'.ok
              /\ lastCall'.error.what
                     = (IF lastCall'.op = "loadTestData" THEN "Unsupported file format"
                                                         ELSE "Unsupported export format")
              /\ IF lastCall'.op = "loadTestData" THEN ~lastCall'.reader
                                                  ELSE ~lastCall'.writer
              /\ testDataCache' = testDataCache
              /\ configCache' = configCache
              /\ disk' = disk]_vars

\* an export to notes.TXT was refused, the cache holding an entry
C18_Witness ==
    /\ lastCall.op = "exportData"
    /\ lastCall.path = NotesPath
    /\ ~lastCall.ok
    /\ testDataCache # <<>>
    /\ disk = CallsDisk

\* the records of the file a load read, the file being unchanged since
Parsed(p) == disk[p].items

\* the criteria are compared by exact equality
ExactCriteria(criteria) ==
    \A n \in 1..Len(criteria) : \A c \in 1..Len(criteria[n].value) : criteria[n].value[c] # "*"

\* the record has the value of the criterion under its key
HasValue(record, criterion) ==
    record.kind = "object" /\ criterion.key = "t" /\ record.t = criterion.value

\* list holds exactly the records of source at the positions keep, in the
\* order of source
ExactlyAt(list, source, keep) ==
    /\ Len(list) = Cardinality(keep)
    /\ \E f \in [1..Len(list) -> keep] :
           /\ \A m, n \in 1..Len(list) : m < n => f[m] < f[n]
           /\ \A n \in 1..Len(list) : list[n] = source[f[n]]

\* C19: loadTestData with filterCriteria whose values have no wildcard
\* returns exactly the records of the source that have, for every criterion
\* key, the criterion's value, in their original relative order.
C19_FilterExact ==
    (/\ LoadCalled
     /\ lastCall.ok
     /\ HasFilterCriteria(lastCall.options)
     /\ ExactCriteria(lastCall.options.filterCriteria))
        => LET criteria == lastCall.options.filterCriteria
               source == Parsed(lastCall.path)
               keep == {n \in 1..Len(source) :
                           \A c \in 1..Len(criteria) : HasValue(source[n], criteria[c])}
           IN  ExactlyAt(lastCall.data, source, keep)

\* the two "smoke" records of [smoke, regression, smoke] were returned
C19_Witness ==
    /\ LoadCalled
    /\ lastCall.path = TagsPath
    /\ lastCall.reader
    /\ lastCall.options.filterCriteria = <<Criterion("t", Smoke)>>
    /\ lastCall.data = <<TagsContent[1], TagsContent[3]>>

\* str matches the glob: "*" stands for any run of characters, every other
\* character for itself in either case
RECURSIVE GlobMatches(_, _)
GlobMatches(glob, str) ==
    IF glob = <<>> THEN str = <<>>
    ELSE IF Head(glob) = "*"
    THEN \E k \in 0..Len(str) : GlobMatches(Tail(glob), SubSeq(str, k + 1, Len(str)))
    ELSE /\ str # <<>>
         /\ LowerChar(Head(glob)) = LowerChar(Head(str))
         /\ GlobMatches(Tail(glob), Tail(str))

\* C20 (as stated): a criterion value containing "*" is matched against the
\* field value as a case-insensitive glob: loadTestData keeps exactly the
\* records whose value the glob matches ("test*" keeps "testAlpha" and
\* "testing", not "mytest").
C20_WildcardIsGlob ==
    (/\ LoadCalled
     /\ lastCall.ok
     /\ HasFilterCriteria(lastCall.options)
     /\ Len(lastCall.options.filterCriteria) = 1
     /\ ~ExactCriteria(lastCall.options.filterCriteria)
     /\ lastCall.options.filterCriteria[1].key = "t")
        => LET glob == lastCall.options.filterCriteria[1].value
               source == Parsed(lastCall.path)
               keep == {n \in 1..Len(source) :
                           source[n].kind = "object" /\ GlobMatches(glob, source[n].t)}
           IN  ExactlyAt(lastCall.data, source, keep)

\* the list after filtering, before sampling
Filtered(p, options) ==
    IF HasFilterCriteria(options)
    THEN filterData(Parsed(p), options.filterCriteria)
    ELSE Parsed(p)

\* list holds records of source taken from pairwise distinct positions
FromDistinctPositions(list, source) ==
    \E f \in [1..Len(list) -> 1..Len(source)] :
        /\ \A m, n \in 1..Len(list) : m # n => f[m] # f[n]
        /\ \A n \in 1..Len(list) : list[n] = source[f[n]]

\* what a successful load returns for a sampleSize that is present and
\* smaller than the filtered record count, and what it returns otherwise
Sampled(call) ==
    LET options == call.options
        filtered == Filtered(call.path, options)
    IN  IF Has(options, "sampleSize") /\ options.sampleSize < Len(filtered)
        THEN /\ Len(call.data) = options.sampleSize
             /\ IF RandomSample(options)
                THEN FromDistinctPositions(call.data, filtered)
                ELSE call.data = Slice(filtered, 0, options.sampleSize)
        ELSE call.data = filtered

\* C21 (as stated): when sampleSize is present and smaller than the filtered
\* record count, loadTestData returns exactly sampleSize records, for every
\* sampleSize from 0 upward: the first sampleSize filtered records without
\* randomSample, records from pairwise distinct positions with it; when
\* sampleSize is absent or not smaller than the count, all filtered records.
C21_SampleSizeHonoured ==
    (LoadCalled /\ lastCall.ok) => Sampled(lastCall)

\* C22 (as stated): if writing the report fails while generateReport is
\* true, executeDataDrivenTests still returns the computed summary to its
\* caller instead of throwing.
C22_ReportFailureReturnsSummary ==
    thrown = ReportError
        => /\ pc = "returned"
           /\ summary = Summary(totalTests, results)

ValidateCalled == lastCall.op = "validateDataIntegrity"

\* the source loads: its format has a reader and the file is there and parses
Loads(p) == SupportedFormat(ToLowerCase(p.ext)) /\ disk[p].kind \in {"array", "value"}

HighIssues(issues) == SelectSeq(issues, LAMBDA issue : issue.severity = "high")

\* C23 (as stated): validateDataIntegrity returns valid = false exactly when
\* at least one listed source is empty or fails to load, which is exactly
\* when a high-severity issue was recorded; inconsistent-structure and
\* missing-required-field issues alone leave valid = true.
C23_ValidExactly ==
    ValidateCalled =>
        LET dataSources == lastCall.dataSources
            emptyOrFailing == \E n \in 1..Len(dataSources) :
                                  \/ ~Loads(dataSources[n])
                                  \/ Len(Parsed(dataSources[n])) = 0
        IN  /\ ~lastCall.valid <=> emptyOrFailing
            /\ ~lastCall.valid <=> HighIssues(lastCall.issues) # <<>>

\* the number of positions of list at which test holds
Count(list, test(_)) == Cardinality({n \in 1..Len(list) : test(list[n])})

\* C24: validateDataIntegrity processes every listed source in order: a
\* source that fails to load is recorded as one high-severity issue for that
\* source, the sources after it are still loaded and checked, and the call
\* returns its result whatever source failed to load.
C24_LoadFailureRecorded ==
    ValidateCalled =>
        LET dataSources == lastCall.dataSources
            loads == lastCall.loads
        IN  /\ lastCall.valid \in BOOLEAN
            /\ Len(loads) = Len(dataSources)
            /\ \A n \in 1..Len(dataSources) :
                   /\ loads[n].source = dataSources[n]
                   /\ loads[n].ok <=> Loads(dataSources[n])
                   /\ loads[n].ok =>
                          /\ loads[n].data = Parsed(dataSources[n])
                          /\ Len(loads[n].data) = 0 =>
                                 \E k \in 1..Len(lastCall.issues) :
                                     /\ lastCall.issues[k].source = dataSources[n]
                                     /\ lastCall.issues[k].severity = "high"
                   /\ ~loads[n].ok =>
                          Count(lastCall.issues,
                                LAMBDA issue : /\ issue.source = dataSources[n]
                                               /\ issue.severity = "high")
                              = Count(dataSources, LAMBDA source : source = dataSources[n])

\* missing.json failed to load, empty.json after it was loaded and found
\* empty: two high-severity issues, one for each
C24_Witness ==
    /\ ValidateCalled
    /\ lastCall.dataSources = <<MissingPath, EmptyPath>>
    /\ ~lastCall.loads[1].ok
    /\ lastCall.loads[2].ok
    /\ ~lastCall.valid
    /\ Len(lastCall.issues) = 2
    /\ lastCall.issues[1].source = MissingPath
    /\ lastCall.issues[2].source = EmptyPath

\* a call was made in this step
CallMade == callCount' = callCount + 1

\* C25: loadTestData with useCache = false, and so validateDataIntegrity,
\* invokes the format reader of the file (there is one for its extension)
\* even when the path has been loaded and cached before, and leaves the
\* record cache and the configuration cache as they were.
C25_NoCacheBypasses ==
    [][(/\ CallMade
        /\ \/ lastCall'.op = "validateDataIntegrity"
           \/ lastCall'.op = "loadTestData" /\ ~UseCache(lastCall'.options))
           => /\ testDataCache' = testDataCache
              /\ configCache' = configCache
              /\ IF lastCall'.op = "loadTestData"
                 THEN /\ ~lastCall'.hit
                      /\ lastCall'.reader <=> SupportedFormat(ToLowerCase(lastCall'.path.ext))
                 ELSE \A n \in 1..Len(lastCall'.dataSources) :
                          lastCall'.loads[n].reader
                              <=> SupportedFormat(ToLowerCase(lastCall'.dataSources[n].ext))]_vars

\* objs.json, in the cache since the first call, was read again by a load
\* with useCache = false; the cache still holds the one entry
C25_Witness ==
    /\ LoadCalled
    /\ lastCall.path = ObjsPath
    /\ ~UseCache(lastCall.options)
    /\ lastCall.reader
    /\ lastCall.previous.op = "loadTestData"
    /\ DOMAIN testDataCache = {CacheKey(ObjsPath, NoOptions)}

\* C26 (as stated): exportData(records, p) to a .json path p followed by
\* loadTestData(p) on the same manager yields records equal to the exported
\* ones, whatever calls (earlier loads of p among them) came before the
\* export.
C26_ExportLoadRoundTrip ==
    (/\ LoadCalled
     /\ lastCall.options = NoOptions
     /\ lastCall.previous.op = "exportData"
     /\ lastCall.previous.ok
     /\ lastCall.previous.path = lastCall.path
     /\ ToLowerCase(lastCall.path.ext) = ".json")
        => /\ lastCall.ok
           /\ lastCall.data = lastCall.previous.data

\* a text was encrypted and the result decrypted
Decrypted == encrypted.op = "encrypt" /\ decrypted.op = "decrypt"

\* C27 (as stated): for every non-empty string t and every secret key,
\* decrypt(encrypt(t)) performed with the same key returns exactly t.
C27_EncryptionRoundTrip ==
    (Decrypted /\ secretKey[decrypted.by] = secretKey[encrypted.by])
        => /\ decrypted.ok
           /\ decrypted.value = encrypted.text

\* C28 (as stated): decrypting a ciphertext that encrypt produced under key
\* k1 with an instance holding a different key k2 always fails with an
\* error; it never returns a plaintext.
C28_WrongKeyFails ==
    (Decrypted /\ secretKey[decrypted.by] # secretKey[encrypted.by])
        => ~decrypted.ok

\* C29 (as stated): provided every format reader call and every
\* testFunction invocation terminates, executeDataDrivenTests eventually
\* returns a summary or throws, for every configuration and every value of
\* maxConcurrency in parallel mode.
C29_Terminates == <>(pc \in {"returned", "thrown"})

\* the calls at positions m < n overlap, with the same path and options and
\* the cache in use
Overlapping(m, n) ==
    /\ m \in inFlight[n].during
    /\ inFlight[m].path = inFlight[n].path
    /\ inFlight[m].options = inFlight[n].options
    /\ UseCache(inFlight[n].options)

\* C30 (as stated): when several loadTestData calls with the same path and
\* options (useCache = true) overlap on one manager, the cache check and
\* fill behaves atomically: the format reader is invoked at most once for
\* the key, and every call returns the list the cache holds for the key
\* afterwards.
C30_CheckAndFillAtomic ==
    \A n \in 1..Len(inFlight) : \A m \in 1..(n - 1) :
        Overlapping(m, n)
            => /\ ~(inFlight[m].reader /\ inFlight[n].reader)
               /\ (Suspended = {} /\ inFlight[m].ok /\ inFlight[n].ok)
                      => LET cacheKey == CacheKey(inFlight[n].path, inFlight[n].options)
                         IN  /\ cacheKey \in DOMAIN testDataCache
                             /\ inFlight[m].data = testDataCache[cacheKey]
                             /\ inFlight[n].data = testDataCache[cacheKey]

====
